---- MODULE Spec2Model ----
(***************************************************************************)
(* Barnes flat resolution (src/flat_resolution_parallel.h):                *)
(* find_flat_edges, label_this, BuildGradient (twice), CombineGradients,   *)
(* sequenced by resolve_flats_barnes.  One grid cell is a pair <<x, y>>.   *)
(***************************************************************************)
EXTENDS Integers, Sequences, FiniteSets, TLC

\* ---------------------------------------------------------------- bounds
Width == 3
Height == 2
MaxElev == 2
MaxNoData == 1

\* ------------------------------------------------------- program constants
NO_FLOW == -1
d8_NO_DATA == -100
DEFINED_DIR == 1

dx == <<-1, -1, 0, 1, 1, 1, 0, -1>>
dy == <<0, -1, -1, -1, 0, 1, 1, 1>>

iteration_marker == <<-1, -1>>

Cells == (0..(Width - 1)) \X (0..(Height - 1))

IN_GRID(x, y, w, h) == x >= 0 /\ y >= 0 /\ x < w /\ y < h

Nbr(c, n) == <<c[1] + dx[n], c[2] + dy[n]>>

VARIABLES
  elevations,            \* input: cell -> elevation
  flowdirs,              \* input: cell -> direction code
  elev_dims,             \* input: <<elevations.width(), elevations.height()>>
  labels,                \* int_2d labels
  flat_resolution_mask,  \* int_2d flat_resolution_mask
  low_edges,             \* std::deque<grid_cell>
  high_edges,            \* std::deque<grid_cell>
  group_number,          \* int group_number
  li,                    \* position of iterator i in the labelling loop
  towards,               \* int_2d towards
  away,                  \* int_2d away
  flat_height,           \* std::vector<int> flat_height, index 0..group_number-1
  edgesT, loopsT, pcT,   \* first BuildGradient call: its queue copy, loops, position
  edgesA, loopsA, pcA,   \* second BuildGradient call
  pc,                    \* position in resolve_flats_barnes
  report                 \* diagnostics emitted so far

vars == <<elevations, flowdirs, elev_dims, labels, flat_resolution_mask, low_edges, high_edges,
          group_number, li, towards, away, flat_height, edgesT, loopsT, pcT,
          edgesA, loopsA, pcA, pc, report>>

inputs == <<elevations, flowdirs, elev_dims>>

FlowVals == {NO_FLOW, DEFINED_DIR, d8_NO_DATA}

ConstGrid(v) == [c \in Cells |-> v]

\* ------------------------------------------------------- find_flat_edges
\* the cells in the order of the two nested loops: x outer, y inner
RECURSIVE ScanFrom(_, _)
ScanFrom(x, y) ==
  IF x >= Width THEN <<>>
  ELSE IF y >= Height THEN ScanFrom(x + 1, 0)
  ELSE <<(<<x, y>>)>> \o ScanFrom(x, y + 1)

ScanOrder == ScanFrom(0, 0)

\* variant: the elevation comparison of line 220 left out
LowCondAnyElev(c, nc) ==
  flowdirs[c] # NO_FLOW /\ flowdirs[nc] = NO_FLOW

LowCond(c, nc) ==
  flowdirs[c] # NO_FLOW /\ flowdirs[nc] = NO_FLOW /\ elevations[nc] = elevations[c]

\* variant: "<=" for the "<" of line 223
HighCondOrEqual(c, nc) ==
  flowdirs[c] = NO_FLOW /\ elevations[c] <= elevations[nc]

HighCond(c, nc) ==
  flowdirs[c] = NO_FLOW /\ elevations[c] < elevations[nc]

\* the loop over n = 1..8 for one cell, from direction n on: which queue the
\* cell is appended to before the break ("low", "high"), or "none"
RECURSIVE EdgeKind(_, _)
EdgeKind(c, n) ==
  IF n > 8 THEN "none"
  ELSE LET nc == Nbr(c, n) IN
    IF ~IN_GRID(nc[1], nc[2], Width, Height) THEN EdgeKind(c, n + 1)
    ELSE IF flowdirs[nc] = d8_NO_DATA THEN EdgeKind(c, n + 1)
    ELSE IF LowCond(c, nc) THEN "low"
    ELSE IF HighCond(c, nc) THEN "high"
    ELSE EdgeKind(c, n + 1)

\* variant: the no_data test of line 211 left out
CellKindNoSkip(c) == EdgeKind(c, 1)

CellKind(c) == IF flowdirs[c] = d8_NO_DATA THEN "none" ELSE EdgeKind(c, 1)

IsLow(c) == CellKind(c) = "low"
IsHigh(c) == CellKind(c) = "high"

find_flat_edges ==
  /\ pc = "scan"
  /\ low_edges' = SelectSeq(ScanOrder, IsLow)
  /\ high_edges' = SelectSeq(ScanOrder, IsHigh)
  /\ pc' = "check"
  /\ UNCHANGED <<inputs, labels, flat_resolution_mask, group_number, li, towards, away,
                 flat_height, edgesT, loopsT, pcT, edgesA, loopsA, pcA, report>>

\* ------------------------------------------- resolve_flats_barnes: early return
NoLowEdges ==
  /\ pc = "check"
  /\ Len(low_edges) = 0
  /\ report' = report \cup {IF Len(high_edges) > 0 THEN "no_outlets" ELSE "no_flats"}
  /\ pc' = "done"
  /\ UNCHANGED <<inputs, labels, flat_resolution_mask, low_edges, high_edges, group_number,
                 li, towards, away, flat_height, edgesT, loopsT, pcT, edgesA, loopsA, pcA>>

\* ------------------------------------------------------------ label_this
InGridNbrsFrom(c, n) ==
  SelectSeq([k \in 1..(9 - n) |-> Nbr(c, n + k - 1)],
            LAMBDA nc : IN_GRID(nc[1], nc[2], Width, Height))

\* variant: the loop of line 180 started at n = 2
InGridNbrsSkipFirst(c) == InGridNbrsFrom(c, 2)

InGridNbrs(c) == InGridNbrsFrom(c, 1)

\* variant: the elevation test of line 178 left out
RECURSIVE label_fillAnyElev(_, _, _, _)
label_fillAnyElev(to_fill, labs, label, target_elevation) ==
  IF Len(to_fill) = 0 THEN labs
  ELSE LET c == Head(to_fill) IN
    IF labs[c] > -1
      THEN label_fillAnyElev(Tail(to_fill), labs, label, target_elevation)
      ELSE label_fillAnyElev(Tail(to_fill) \o InGridNbrs(c), [labs EXCEPT ![c] = label],
                             label, target_elevation)

RECURSIVE label_fill(_, _, _, _)
label_fill(to_fill, labs, label, target_elevation) ==
  IF Len(to_fill) = 0 THEN labs
  ELSE LET c == Head(to_fill) IN
    IF elevations[c] # target_elevation \/ labs[c] > -1
      THEN label_fill(Tail(to_fill), labs, label, target_elevation)
      ELSE label_fill(Tail(to_fill) \o InGridNbrs(c), [labs EXCEPT ![c] = label],
                      label, target_elevation)

label_this(c, label, labs) == label_fill(<<c>>, labs, label, elevations[c])

\* one iteration of the labelling loop over low_edges, and its exit
LabelLoop ==
  /\ pc = "check"
  /\ Len(low_edges) # 0
  /\ li <= Len(low_edges)
  /\ LET c == low_edges[li] IN
       IF labels[c] = -1
         THEN /\ labels' = label_this(c, group_number, labels)
              /\ group_number' = group_number + 1
         ELSE UNCHANGED <<labels, group_number>>
  /\ li' = li + 1
  /\ UNCHANGED <<inputs, flat_resolution_mask, low_edges, high_edges, towards, away,
                 flat_height, edgesT, loopsT, pcT, edgesA, loopsA, pcA, pc, report>>

\* ------------------------- resolve_flats_barnes: filter high edges, allocate
\* variant: the test of line 276 left out
HasLabelAny(c) == TRUE

HasLabel(c) == labels[c] # -1

FilterHighEdges ==
  /\ pc = "check"
  /\ Len(low_edges) # 0
  /\ li > Len(low_edges)
  /\ LET temp == SelectSeq(high_edges, HasLabel) IN
       /\ report' = IF Len(temp) < Len(high_edges) THEN report \cup {"sinks"} ELSE report
       /\ high_edges' = temp
  /\ towards' = ConstGrid(0)
  /\ away' = ConstGrid(0)
  /\ flat_height' = [g \in 0..(group_number - 1) |-> 0]
  /\ pc' = "build"
  /\ UNCHANGED <<inputs, labels, flat_resolution_mask, low_edges, group_number, li,
                 edgesT, loopsT, pcT, edgesA, loopsA, pcA>>

\* --------------------------------------------------------- BuildGradient
\* variant: the flowdirs test of line 75 left out
PushCondAnyDir(c, nc) ==
  /\ IN_GRID(nc[1], nc[2], elev_dims[1], elev_dims[2])
  /\ elevations[nc] = elevations[c]

\* the neighbours pushed by one incremented cell, in the order n = 1..8
PushCond(c, nc) ==
  /\ IN_GRID(nc[1], nc[2], elev_dims[1], elev_dims[2])
  /\ elevations[nc] = elevations[c]
  /\ flowdirs[nc] = NO_FLOW

\* variant: only the four diagonal-free directions are pushed
GradientPushesD4(c) ==
  SelectSeq([k \in 1..4 |-> Nbr(c, 2 * k - 1)], LAMBDA nc : PushCond(c, nc))

GradientPushes(c) ==
  SelectSeq([n \in 1..8 |-> Nbr(c, n)], LAMBDA nc : PushCond(c, nc))

\* variant: line 69 as an update only when the layer number is larger
HeightWriteIfLarger(fh, c, loops) ==
  [fh EXCEPT ![labels[c]] = IF loops > @ THEN loops ELSE @]

\* the value written into flat_height[labels(x,y)] by an incremented cell
HeightWrite(fh, c, loops) == [fh EXCEPT ![labels[c]] = loops]

\* variant: the "loops++" of line 60 left out
BuildGradientIterNoLayer(incrementations, edges, loops, fh) ==
  LET c == Head(edges)
      rest == Tail(edges)
  IN IF c[1] = -1
       THEN [inc |-> incrementations, edges |-> rest \o <<iteration_marker>>,
             loops |-> loops, fh |-> fh]
     ELSE IF incrementations[c] > 0
       THEN [inc |-> incrementations, edges |-> rest, loops |-> loops, fh |-> fh]
     ELSE [inc |-> [incrementations EXCEPT ![c] = loops],
           edges |-> rest \o GradientPushes(c),
           loops |-> loops,
           fh |-> HeightWrite(fh, c, loops)]

\* variant: the marker not pushed back at line 61
BuildGradientIterNoRepush(incrementations, edges, loops, fh) ==
  LET c == Head(edges)
      rest == Tail(edges)
  IN IF c[1] = -1
       THEN [inc |-> incrementations, edges |-> rest, loops |-> loops + 1, fh |-> fh]
     ELSE IF incrementations[c] > 0
       THEN [inc |-> incrementations, edges |-> rest, loops |-> loops, fh |-> fh]
     ELSE [inc |-> [incrementations EXCEPT ![c] = loops],
           edges |-> rest \o GradientPushes(c),
           loops |-> loops,
           fh |-> HeightWrite(fh, c, loops)]

\* one iteration of the while loop: the new (incrementations, edges, loops,
\* flat_height)
BuildGradientIter(incrementations, edges, loops, fh) ==
  LET c == Head(edges)
      rest == Tail(edges)
  IN IF c[1] = -1
       THEN [inc |-> incrementations, edges |-> rest \o <<iteration_marker>>,
             loops |-> loops + 1, fh |-> fh]
     ELSE IF incrementations[c] > 0
       THEN [inc |-> incrementations, edges |-> rest, loops |-> loops, fh |-> fh]
     ELSE [inc |-> [incrementations EXCEPT ![c] = loops],
           edges |-> rest \o GradientPushes(c),
           loops |-> loops,
           fh |-> HeightWrite(fh, c, loops)]

\* the index flat_height is written at is in range (else the write is undefined)
HeightIndexOk(incrementations, edges) ==
  LET c == Head(edges) IN
    (c[1] # -1 /\ incrementations[c] = 0) => labels[c] \in DOMAIN flat_height

TowardsCallBody ==
  /\ pc = "build"
  /\ pcT = "idle"
  /\ edgesT' = low_edges \o <<iteration_marker>>
  /\ loopsT' = 1
  /\ pcT' = "loop"
  /\ UNCHANGED <<inputs, labels, flat_resolution_mask, low_edges, high_edges, group_number,
                 li, towards, away, flat_height, edgesA, loopsA, pcA, pc, report>>

TowardsIterBody ==
  /\ pc = "build"
  /\ pcT = "loop"
  /\ Len(edgesT) # 1
  /\ LET r == BuildGradientIter(towards, edgesT, loopsT, flat_height) IN
       /\ towards' = r.inc
       /\ edgesT' = r.edges
       /\ loopsT' = r.loops
       /\ flat_height' = r.fh
  /\ UNCHANGED <<inputs, labels, flat_resolution_mask, low_edges, high_edges, group_number,
                 li, away, edgesA, loopsA, pcA, pcT, pc, report>>

TowardsReturnBody ==
  /\ pc = "build"
  /\ pcT = "loop"
  /\ Len(edgesT) = 1
  /\ pcT' = "ret"
  /\ UNCHANGED <<inputs, labels, flat_resolution_mask, low_edges, high_edges, group_number,
                 li, towards, away, flat_height, edgesT, loopsT, edgesA, loopsA, pcA, pc,
                 report>>

AwayCallBody ==
  /\ pc = "build"
  /\ pcA = "idle"
  /\ edgesA' = high_edges \o <<iteration_marker>>
  /\ loopsA' = 1
  /\ pcA' = "loop"
  /\ UNCHANGED <<inputs, labels, flat_resolution_mask, low_edges, high_edges, group_number,
                 li, towards, away, flat_height, edgesT, loopsT, pcT, pc, report>>

AwayIterBody ==
  /\ pc = "build"
  /\ pcA = "loop"
  /\ Len(edgesA) # 1
  /\ LET r == BuildGradientIter(away, edgesA, loopsA, flat_height) IN
       /\ away' = r.inc
       /\ edgesA' = r.edges
       /\ loopsA' = r.loops
       /\ flat_height' = r.fh
  /\ UNCHANGED <<inputs, labels, flat_resolution_mask, low_edges, high_edges, group_number,
                 li, towards, edgesT, loopsT, pcT, pcA, pc, report>>

AwayReturnBody ==
  /\ pc = "build"
  /\ pcA = "loop"
  /\ Len(edgesA) = 1
  /\ pcA' = "ret"
  /\ UNCHANGED <<inputs, labels, flat_resolution_mask, low_edges, high_edges, group_number,
                 li, towards, away, flat_height, edgesT, loopsT, pcT, edgesA, loopsA, pc,
                 report>>

\* resolve_flats_barnes calls the two passes one after the other
TowardsCall == TowardsCallBody
TowardsIter == TowardsIterBody
TowardsReturn == TowardsReturnBody
AwayCall == pcT = "ret" /\ AwayCallBody
AwayIter == pcT = "ret" /\ AwayIterBody
AwayReturn == pcT = "ret" /\ AwayReturnBody

\* ------------------------------------------------------ CombineGradients
CombinePushCond(c, nc) ==
  /\ IN_GRID(nc[1], nc[2], elev_dims[1], elev_dims[2])
  /\ elevations[nc] = elevations[c]

CombinePushes(c) ==
  SelectSeq([n \in 1..8 |-> Nbr(c, n)], LAMBDA nc : CombinePushCond(c, nc))

\* variant: line 140 without its "+1"
MaskValueNoPlusOne(old, t, a, h) ==
  IF t > 0
    THEN 2 * (t - 1) + (IF a > 0 THEN h - a ELSE 0)
    ELSE old

\* variant: line 138 without its factor 2
MaskValueUnscaled(old, t, a, h) ==
  IF t > 0
    THEN (t - 1) + (IF a > 0 THEN h - a + 1 ELSE 0)
    ELSE old

\* the value left in flat_resolution_mask(x,y) by lines 137-141
MaskValue(old, t, a, h) ==
  IF t > 0
    THEN 2 * (t - 1) + (IF a > 0 THEN h - a + 1 ELSE 0)
    ELSE old

CombineCall ==
  /\ pc = "build"
  /\ pcT = "ret"
  /\ pcA = "ret"
  /\ pc' = "combine"
  /\ UNCHANGED <<inputs, labels, flat_resolution_mask, low_edges, high_edges, group_number,
                 li, towards, away, flat_height, edgesT, loopsT, pcT, edgesA, loopsA, pcA,
                 report>>

\* one iteration of the while loop; edge is the caller's low_edges (by reference)
CombineIter ==
  /\ pc = "combine"
  /\ Len(low_edges) # 0
  /\ LET c == Head(low_edges)
         rest == Tail(low_edges)
     IN IF towards[c] = -1
          THEN /\ low_edges' = rest
               /\ UNCHANGED <<towards, flat_resolution_mask>>
          ELSE /\ low_edges' = rest \o CombinePushes(c)
               /\ flat_resolution_mask' =
                    [flat_resolution_mask EXCEPT
                       ![c] = MaskValue(@, towards[c], away[c],
                                        IF towards[c] > 0 /\ away[c] > 0
                                          THEN flat_height[labels[c]] ELSE 0)]
               /\ towards' = [towards EXCEPT ![c] = -1]
  /\ UNCHANGED <<inputs, labels, high_edges, group_number, li, away, flat_height,
                 edgesT, loopsT, pcT, edgesA, loopsA, pcA, pc, report>>

CombineReturn ==
  /\ pc = "combine"
  /\ Len(low_edges) = 0
  /\ pc' = "done"
  /\ UNCHANGED <<inputs, labels, flat_resolution_mask, low_edges, high_edges, group_number,
                 li, towards, away, flat_height, edgesT, loopsT, pcT, edgesA, loopsA, pcA,
                 report>>

\* the state at the entry of resolve_flats_barnes, but for elev_dims
InitGrids ==
  /\ elevations \in [Cells -> 1..MaxElev]
  /\ flowdirs \in [Cells -> FlowVals]
  /\ Cardinality({c \in Cells : flowdirs[c] = d8_NO_DATA}) <= MaxNoData
  /\ labels = ConstGrid(-1)
  /\ flat_resolution_mask = ConstGrid(-1)
  /\ low_edges = <<>>
  /\ high_edges = <<>>
  /\ group_number = 0
  /\ li = 1
  /\ towards = ConstGrid(0)
  /\ away = ConstGrid(0)
  /\ flat_height = <<>>
  /\ edgesT = <<>> /\ loopsT = 1 /\ pcT = "idle"
  /\ edgesA = <<>> /\ loopsA = 1 /\ pcA = "idle"
  /\ pc = "scan"
  /\ report = {}

\* the two input grids have the same dimensions, Width x Height
Init ==
  /\ InitGrids
  /\ elev_dims = <<Width, Height>>

Next ==
  \/ find_flat_edges
  \/ NoLowEdges
  \/ LabelLoop
  \/ FilterHighEdges
  \/ TowardsCall
  \/ TowardsIter
  \/ TowardsReturn
  \/ AwayCall
  \/ AwayIter
  \/ AwayReturn
  \/ CombineCall
  \/ CombineIter
  \/ CombineReturn

Spec == Init /\ [][Next]_vars

\* The two BuildGradient calls run as concurrent tasks (spec section 5): the
\* iterations of the two loops interleave freely.
NextPar ==
  \/ find_flat_edges
  \/ NoLowEdges
  \/ LabelLoop
  \/ FilterHighEdges
  \/ TowardsCallBody
  \/ TowardsIterBody
  \/ TowardsReturnBody
  \/ AwayCallBody
  \/ AwayIterBody
  \/ AwayReturnBody
  \/ CombineCall
  \/ CombineIter
  \/ CombineReturn

SpecPar == Init /\ [][NextPar]_vars

\* ------------------------------------------------ reference notions
\* 8-adjacency by coordinates
Adjacent(a, b) ==
  /\ a # b
  /\ a[1] - b[1] \in {-1, 0, 1}
  /\ a[2] - b[2] \in {-1, 0, 1}

\* cells joined to a cell of S by an 8-connected path of equal-elevation cells
RECURSIVE Component(_)
Component(S) ==
  LET T == S \cup {n \in Cells : \E c \in S : Adjacent(c, n) /\ elevations[n] = elevations[c]}
  IN IF T = S THEN S ELSE Component(T)

HasDefinedDir(c) == flowdirs[c] # NO_FLOW /\ flowdirs[c] # d8_NO_DATA

\* a cell with a defined direction and an equal-elevation NO_FLOW neighbour
LowEdgeCells ==
  {c \in Cells : /\ HasDefinedDir(c)
                 /\ \E n \in Cells : /\ Adjacent(c, n)
                                     /\ flowdirs[n] = NO_FLOW
                                     /\ elevations[n] = elevations[c]}

\* a NO_FLOW cell with a strictly higher neighbour whose direction is not no-data
HighEdgeCells ==
  {c \in Cells : /\ flowdirs[c] = NO_FLOW
                 /\ \E n \in Cells : /\ Adjacent(c, n)
                                     /\ flowdirs[n] # d8_NO_DATA
                                     /\ elevations[n] > elevations[c]}

\* breadth-first layers: seeds are layer 1; a step goes onto a NO_FLOW cell
\* whose elevation equals that of the cell stepped from
RECURSIVE BFSLayers(_, _, _, _)
BFSLayers(frontier, visited, k, grid) ==
  IF frontier = {} THEN grid
  ELSE LET seen == visited \cup frontier
           nxt == {n \in Cells \ seen :
                     \E c \in frontier : /\ Adjacent(c, n)
                                         /\ flowdirs[n] = NO_FLOW
                                         /\ elevations[n] = elevations[c]}
       IN BFSLayers(nxt, seen, k + 1, [c \in Cells |-> IF c \in frontier THEN k ELSE grid[c]])

RefDist(seeds) == BFSLayers(seeds, {}, 1, ConstGrid(0))

Range(q) == {q[i] : i \in 1..Len(q)}

Finished == pc = "done" /\ LowEdgeCells # {}

\* ------------------------------------------------------------------ C1
\* C1: (T is the towards grid as the first BuildGradient call leaves it; away
\* and flat_height are not written after the second call.)  When
\* resolve_flats_barnes has returned, every cell joined to a low edge
\* by an 8-connected path of equal-elevation cells has
\* mask = 2*(towards-1) (+ flat_height[label] - away + 1 when away > 0) if its
\* towards distance is positive and mask = -1 if the distance is 0; and a mask
\* cell that has been written is never written again.
C1_MaskFormula ==
  /\ (pc = "build" /\ pcT = "ret") => towards = RefDist(LowEdgeCells)
  /\ Finished =>
    LET T == RefDist(LowEdgeCells) IN
      \A c \in Component(LowEdgeCells) :
        IF T[c] > 0
          THEN flat_resolution_mask[c] =
                 2 * (T[c] - 1)
                 + (IF away[c] > 0 THEN flat_height[labels[c]] - away[c] + 1 ELSE 0)
          ELSE flat_resolution_mask[c] = -1

C1_WrittenOnce ==
  \A c \in Cells :
    flat_resolution_mask'[c] # flat_resolution_mask[c] =>
      /\ flat_resolution_mask[c] = -1
      /\ towards[c] > 0
      /\ towards'[c] = -1

C1_Mask == [](C1_MaskFormula) /\ [][C1_WrittenOnce]_vars

C1_Witness ==
  /\ Finished
  /\ \E c \in Cells : away[c] > 0 /\ flat_resolution_mask[c] > 2
  /\ \E c \in Component(LowEdgeCells) : flat_resolution_mask[c] = -1
  /\ \E c \in Cells : away[c] = 0 /\ flat_resolution_mask[c] = 2

\* ------------------------------------------------------------------ C2
\* C2: monotone descent: a resolved cell's mask is strictly greater than the
\* mask of every 8-neighbour of the same region that is one towards-layer
\* closer to a low edge.
C2_MonotoneDescent ==
  Finished =>
    LET T == RefDist(LowEdgeCells) IN
      \A c \in Cells : \A n \in Cells :
        (/\ flat_resolution_mask[c] # -1
         /\ Adjacent(c, n)
         /\ labels[n] = labels[c]
         /\ T[n] = T[c] - 1)
        => flat_resolution_mask[c] > flat_resolution_mask[n]

C2_Witness ==
  /\ Finished
  /\ LET T == RefDist(LowEdgeCells) IN
       \E c \in Cells : \E n \in Cells :
         /\ Adjacent(c, n)
         /\ labels[n] = labels[c]
         /\ T[c] >= 3
         /\ T[n] = T[c] - 1
         /\ away[n] > 0
         /\ away[n] < away[c]
         /\ flat_resolution_mask[c] = flat_resolution_mask[n] + 1

\* ------------------------------------------------------------------ C3
\* C3: a cell that no 8-connected path of equal-elevation cells joins to a low
\* edge keeps mask -1; without any low edge the mask and the labels are
\* entirely -1.
C3_Sentinel ==
  /\ flat_resolution_mask # ConstGrid(-1) =>
       LET reachable == Component(LowEdgeCells) IN
         \A c \in Cells \ reachable : flat_resolution_mask[c] = -1
  /\ (pc = "done" /\ LowEdgeCells = {}) =>
       (flat_resolution_mask = ConstGrid(-1) /\ labels = ConstGrid(-1))

C3_Witness ==
  /\ Finished
  /\ \E c \in Cells \ Component(LowEdgeCells) : flowdirs[c] = NO_FLOW
  /\ \E c \in Cells : flat_resolution_mask[c] > 0

\* ------------------------------------------------------------------ C4
\* C4 (as claimed): every cell whose mask is not -1 has flow direction NO_FLOW.
C4_OnlyFlatCells ==
  \A c \in Cells : flat_resolution_mask[c] # -1 => flowdirs[c] = NO_FLOW

\* C4 (amended): every cell whose mask is not -1 has flow direction NO_FLOW or
\* is a low edge (a cell with a defined direction and an equal-elevation
\* NO_FLOW neighbour), and a low edge's mask is 0.
C4_FlatOrLowEdge ==
  \A c \in Cells :
    flat_resolution_mask[c] # -1 =>
      \/ flowdirs[c] = NO_FLOW
      \/ (c \in LowEdgeCells /\ flat_resolution_mask[c] = 0)

C4_Witness ==
  /\ Finished
  /\ \E c \in LowEdgeCells : flat_resolution_mask[c] = 0
  /\ \E c \in Cells : flowdirs[c] = NO_FLOW /\ flat_resolution_mask[c] > 0
  /\ \E c \in Cells : HasDefinedDir(c) /\ c \notin LowEdgeCells
                      /\ c \in Component(LowEdgeCells)
\* ------------------------------------------------------------------ C5
\* C5 (as claimed): after find_flat_edges, low_edges holds exactly the NO_FLOW
\* cells that have an 8-neighbour with a defined direction at the same
\* elevation.
C5_LowEdgeIsFlatCell ==
  pc = "check" =>
    Range(low_edges) =
      {c \in Cells : /\ flowdirs[c] = NO_FLOW
                     /\ \E n \in Cells : /\ Adjacent(c, n)
                                         /\ HasDefinedDir(n)
                                         /\ elevations[n] = elevations[c]}

\* C5 (amended): after find_flat_edges, low_edges holds, once each, exactly the
\* cells with a defined direction (not NO_FLOW, not no-data) that have an
\* in-grid 8-neighbour with direction NO_FLOW at the same elevation.
C5_LowEdgeIsDefinedCell ==
  pc = "check" =>
    /\ Range(low_edges) = LowEdgeCells
    /\ Len(low_edges) = Cardinality(LowEdgeCells)

C5_Witness ==
  /\ pc = "check"
  /\ Len(low_edges) >= 2
  /\ \E c \in Cells : /\ flowdirs[c] = d8_NO_DATA
                      /\ \E n \in Cells : /\ Adjacent(c, n)
                                          /\ flowdirs[n] = NO_FLOW
                                          /\ elevations[n] = elevations[c]
  /\ \E c \in Cells : /\ HasDefinedDir(c)
                      /\ c \notin Range(low_edges)
                      /\ \E n \in Cells : Adjacent(c, n) /\ flowdirs[n] = NO_FLOW

\* ------------------------------------------------------------------ C6
\* C6: after find_flat_edges, high_edges holds, once each, exactly the NO_FLOW
\* cells that have an in-grid 8-neighbour, not no-data, at strictly higher
\* elevation, whether or not they also have an equal-elevation neighbour with
\* a defined direction.
C6_HighEdges ==
  pc = "check" =>
    /\ Range(high_edges) = HighEdgeCells
    /\ Len(high_edges) = Cardinality(HighEdgeCells)

C6_Witness ==
  /\ pc = "check"
  /\ \E c \in Range(high_edges) :
       \E n \in Cells : /\ Adjacent(c, n)
                        /\ HasDefinedDir(n)
                        /\ elevations[n] = elevations[c]
  /\ \E c \in Cells \ Range(high_edges) :
       /\ flowdirs[c] = NO_FLOW
       /\ \E n \in Cells : /\ Adjacent(c, n)
                           /\ flowdirs[n] = d8_NO_DATA
                           /\ elevations[n] > elevations[c]

\* ------------------------------------------------------------------ C7
\* the labelling loop and the filter of high_edges have just ended
Labelled == pc = "build" /\ pcT = "idle"

\* C7 (as claimed): after labelling, a cell is labelled exactly when its
\* direction is NO_FLOW and an equal-elevation 8-connected path over NO_FLOW
\* cells joins it to a low edge.
C7_LabelledIffFlat ==
  Labelled =>
    LET T == RefDist(LowEdgeCells) IN
      \A c \in Cells : labels[c] # -1 <=> (flowdirs[c] = NO_FLOW /\ T[c] > 0)

\* C7 (amended): after labelling, a cell is labelled exactly when an
\* 8-connected path of equal-elevation cells, of whatever flow direction,
\* joins it to a low edge (the low edges themselves included).
C7_LabelledIffConnected ==
  Labelled =>
    LET reachable == Component(LowEdgeCells) IN
      \A c \in Cells : labels[c] # -1 <=> c \in reachable

C7_Witness ==
  /\ Labelled
  /\ \E c \in Cells : labels[c] # -1 /\ flowdirs[c] = d8_NO_DATA
  /\ \E c \in Cells : labels[c] # -1 /\ HasDefinedDir(c) /\ c \notin LowEdgeCells
  /\ \E c \in Cells : labels[c] = -1 /\ flowdirs[c] = NO_FLOW

\* ------------------------------------------------------------------ C8
\* C8: after labelling, two labelled cells carry the same label exactly when
\* an 8-connected path of cells of their elevation joins them; the labels in
\* use are exactly 0..group_number-1; a label once written is never changed.
C8_Regions ==
  Labelled =>
    /\ \A a \in Cells : \A b \in Cells :
         (labels[a] # -1 /\ labels[b] # -1) =>
           (labels[a] = labels[b] <=> b \in Component({a}))
    /\ {labels[c] : c \in Cells} \ {-1} = 0..(group_number - 1)

C8_Stable ==
  \A c \in Cells : labels[c] # -1 => labels'[c] = labels[c]

C8_Partition == [](C8_Regions) /\ [][C8_Stable]_vars

C8_Witness ==
  /\ Labelled
  /\ group_number >= 2
  /\ \E a \in LowEdgeCells : \E b \in LowEdgeCells :
       /\ elevations[a] = elevations[b]
       /\ labels[a] # labels[b]
  /\ \E c \in Cells : labels[c] = -1

\* ------------------------------------------------------------------ C9
\* the distance grid of one BuildGradient call against the breadth-first
\* layers of its seeds: an assigned cell holds its layer, every layer below
\* the current one is completely assigned, and at return the grid is the
\* layer grid (0 where no path leads)
DistanceField(grid, seeds, loops, returned) ==
  LET D == RefDist(Range(seeds)) IN
    /\ \A c \in Cells : grid[c] > 0 => grid[c] = D[c]
    /\ \A c \in Cells : (0 < D[c] /\ D[c] < loops) => grid[c] = D[c]
    /\ returned => grid = D

\* C9: BuildGradient leaves 1 at every seed, 1 + the length of the shortest
\* path over equal-elevation NO_FLOW steps at every other reachable cell and
\* 0 elsewhere, and never assigns a layer before the smaller layers are
\* complete.
C9_DistanceField ==
  pc = "build" =>
    /\ pcT # "idle" => DistanceField(towards, low_edges, loopsT, pcT = "ret")
    /\ pcA # "idle" => DistanceField(away, high_edges, loopsA, pcA = "ret")

C9_Witness ==
  /\ pc = "build"
  /\ pcA = "ret"
  /\ \E c \in Cells : towards[c] = 3
  /\ \E c \in Cells : away[c] = 2
  /\ \E c \in Cells : flowdirs[c] = NO_FLOW /\ towards[c] = 0

\* ----------------------------------------------------------------- C10
BothReturned == pc = "build" /\ pcT = "ret" /\ pcA = "ret"

MaxOf(S) == CHOOSE m \in S : \A k \in S : k <= m

\* the largest away distance of a region
RegionAway(g) == MaxOf({away[c] : c \in {k \in Cells : labels[k] = g}})

\* C10 (as claimed): in every interleaving of the two BuildGradient calls the
\* towards grid, the away grid and the flat_height entries CombineGradients
\* reads are those of the order towards-then-away.
C10_NoDependency ==
  BothReturned =>
    /\ towards = RefDist(Range(low_edges))
    /\ away = RefDist(Range(high_edges))
    /\ \A c \in Cells :
         (towards[c] > 0 /\ away[c] > 0) => flat_height[labels[c]] = RegionAway(labels[c])

\* C10 (amended): in every interleaving of the two BuildGradient calls the
\* towards grid and the away grid are those of the order towards-then-away
\* (the calls write disjoint distance grids); flat_height is written by both.
C10_GridsIndependent ==
  BothReturned =>
    /\ towards = RefDist(Range(low_edges))
    /\ away = RefDist(Range(high_edges))

C10_Witness ==
  /\ BothReturned
  /\ \E c \in Cells :
       /\ towards[c] > 0
       /\ away[c] > 0
       /\ flat_height[labels[c]] > RegionAway(labels[c])

\* ----------------------------------------------------------------- C11
\* the single-row scenario: the row <<0,0>>, <<1,0>>, <<2,0>> has one elevation
\* and directions defined, NO_FLOW, NO_FLOW; every other cell of the grid lies
\* strictly lower, so that it neither joins the row nor makes a high edge of it
Row == <<(<<0, 0>>), (<<1, 0>>), (<<2, 0>>)>>

SingleRow ==
  /\ elevations[Row[1]] = elevations[Row[2]]
  /\ elevations[Row[2]] = elevations[Row[3]]
  /\ \A c \in Cells \ Range(Row) : elevations[c] < elevations[Row[1]]
  /\ HasDefinedDir(Row[1])
  /\ flowdirs[Row[2]] = NO_FLOW
  /\ flowdirs[Row[3]] = NO_FLOW

RowLowEdges == SelectSeq(low_edges, LAMBDA c : c \in Range(Row))

\* C11 (as claimed): in the single-row scenario cell 1 is the only low edge of
\* the row, cells 1 and 2 share a label, towards is 1 at cell 1 and 2 at cell
\* 2, away is 0, and the final mask is 0 at cell 1 and 2 at cell 2.
C11_RowAsClaimed ==
  SingleRow =>
    /\ pc = "check" => RowLowEdges = <<Row[2]>>
    /\ BothReturned =>
         /\ labels[Row[2]] = labels[Row[3]] /\ labels[Row[2]] # -1
         /\ towards[Row[2]] = 1 /\ towards[Row[3]] = 2
         /\ \A i \in 1..3 : away[Row[i]] = 0
    /\ pc = "done" =>
         flat_resolution_mask[Row[2]] = 0 /\ flat_resolution_mask[Row[3]] = 2

\* C11 (amended): in the single-row scenario cell 0, the cell with the defined
\* direction, is the only low edge of the row, cells 0, 1 and 2 share a label,
\* towards is 1, 2, 3 at cells 0, 1, 2, away is 0, and the final mask is
\* 0, 2, 4 at cells 0, 1, 2.
C11_RowAsCoded ==
  SingleRow =>
    /\ pc = "check" => RowLowEdges = <<Row[1]>>
    /\ BothReturned =>
         /\ labels[Row[1]] # -1
         /\ labels[Row[1]] = labels[Row[2]] /\ labels[Row[2]] = labels[Row[3]]
         /\ \A i \in 1..3 : towards[Row[i]] = i
         /\ \A i \in 1..3 : away[Row[i]] = 0
    /\ pc = "done" =>
         \A i \in 1..3 : flat_resolution_mask[Row[i]] = 2 * (i - 1)

C11_Witness ==
  /\ SingleRow
  /\ pc = "done"
  /\ flat_resolution_mask[Row[3]] = 4
  /\ flat_resolution_mask[Row[1]] = 0

\* ----------------------------------------------------------------- C12
HasFlatCell == \E c \in Cells : flowdirs[c] = NO_FLOW

\* C12: when find_flat_edges found no low edge, resolve_flats_barnes returns
\* with labels and mask entirely -1; it reports "flats without outlets", and
\* not "no flats", if the grid has a NO_FLOW cell, and "no flats" only if the
\* grid has none.
C12_OutletReport ==
  (pc = "done" /\ Len(low_edges) = 0 /\ group_number = 0) =>
    /\ labels = ConstGrid(-1)
    /\ flat_resolution_mask = ConstGrid(-1)
    /\ HasFlatCell => ("no_outlets" \in report /\ "no_flats" \notin report)
    /\ "no_flats" \in report => ~HasFlatCell

\* ----------------------------------------------------------------- C13
\* the cells of the flats that have no outlet: NO_FLOW cells that no
\* equal-elevation path joins to a low edge
OutletLessCells ==
  LET reachable == Component(LowEdgeCells) IN
    {c \in Cells : flowdirs[c] = NO_FLOW /\ c \notin reachable}

\* the mask of a cell computed from its own equal-elevation component alone,
\* all other flats being absent
OwnMask(c) ==
  LET K == Component({c})
      T == RefDist(LowEdgeCells \cap K)
      A == RefDist(HighEdgeCells \cap K)
      H == MaxOf({A[k] : k \in K})
  IN IF T[c] > 0
       THEN 2 * (T[c] - 1) + (IF A[c] > 0 THEN H - A[c] + 1 ELSE 0)
       ELSE -1

C13_SentinelKept == \A c \in OutletLessCells : flat_resolution_mask[c] = -1

C13_OthersUnaffected ==
  \A c \in Component(LowEdgeCells) : flat_resolution_mask[c] = OwnMask(c)

\* C13: in a run with a low edge, the cells of an outlet-less flat keep mask
\* -1, the masks of the other flats are what they are without it, and the
\* drainage-less condition is reported exactly when an outlet-less flat
\* exists.
C13_MixedCase ==
  Finished =>
    /\ C13_SentinelKept
    /\ C13_OthersUnaffected
    /\ "sinks" \in report <=> OutletLessCells # {}

\* the parts of C13 that hold of the code: the report is made only if an
\* outlet-less flat exists, but not for every such flat
C13_PartsThatHold ==
  Finished =>
    /\ C13_SentinelKept
    /\ C13_OthersUnaffected
    /\ "sinks" \in report => OutletLessCells # {}

\* ----------------------------------------------------------------- C14
\* resolve_flats_barnes called with an elevation grid whose dimensions may
\* differ from those of the flow-direction grid (Width x Height).  The code
\* sizes labels and mask by flowdirs (lines 241, 248), scans by flowdirs
\* (lines 208-210) and never compares the two grids' dimensions.
DimsMatch == elev_dims = <<Width, Height>>

ElevDimChoices == ((Width - 1)..(Width + 1)) \X ((Height - 1)..(Height + 1))

InitDims ==
  /\ InitGrids
  /\ elev_dims \in ElevDimChoices

OutOfElev(c) == ~IN_GRID(c[1], c[2], elev_dims[1], elev_dims[2])

\* whether the loop over n of find_flat_edges, from direction n on, reads
\* elevations at a coordinate outside the elevation grid (lines 220, 223)
RECURSIVE ScanReadsOutside(_, _)
ScanReadsOutside(c, n) ==
  IF n > 8 THEN FALSE
  ELSE LET nc == Nbr(c, n) IN
    IF ~IN_GRID(nc[1], nc[2], Width, Height) THEN ScanReadsOutside(c, n + 1)
    ELSE IF flowdirs[nc] = d8_NO_DATA THEN ScanReadsOutside(c, n + 1)
    ELSE IF /\ (flowdirs[c] = NO_FLOW \/ flowdirs[nc] = NO_FLOW)
            /\ (OutOfElev(c) \/ OutOfElev(nc)) THEN TRUE
    ELSE IF LowCond(c, nc) \/ HighCond(c, nc) THEN FALSE
    ELSE ScanReadsOutside(c, n + 1)

\* an out-of-range read either yields some value (the elevations chosen for
\* those coordinates, find_flat_edges going on) or ends the process
ScanFault ==
  /\ pc = "scan"
  /\ \E c \in Cells : flowdirs[c] # d8_NO_DATA /\ ScanReadsOutside(c, 1)
  /\ pc' = "crashed"
  /\ UNCHANGED <<inputs, labels, flat_resolution_mask, low_edges, high_edges, group_number,
                 li, towards, away, flat_height, edgesT, loopsT, pcT, edgesA, loopsA, pcA,
                 report>>

\* with low edges found, labelling, BuildGradient and CombineGradients index
\* grids of different dimensions by the same coordinates: undefined from here
UndefinedAfterScan ==
  /\ pc = "check"
  /\ ~DimsMatch
  /\ Len(low_edges) # 0
  /\ pc' = "undefined"
  /\ UNCHANGED <<inputs, labels, flat_resolution_mask, low_edges, high_edges, group_number,
                 li, towards, away, flat_height, edgesT, loopsT, pcT, edgesA, loopsA, pcA,
                 report>>

NextDims ==
  \/ find_flat_edges
  \/ ScanFault
  \/ NoLowEdges
  \/ UndefinedAfterScan
  \/ (DimsMatch /\ LabelLoop)
  \/ (DimsMatch /\ FilterHighEdges)
  \/ TowardsCall
  \/ TowardsIter
  \/ TowardsReturn
  \/ AwayCall
  \/ AwayIter
  \/ AwayReturn
  \/ CombineCall
  \/ CombineIter
  \/ CombineReturn

SpecDims == InitDims /\ [][NextDims]_vars

\* C14: with grids of different dimensions resolve_flats_barnes ends in an
\* invalid-input failure before any traversal: the edge scan never runs, no
\* edge queue is filled, the mask is not produced and the run does not end
\* in any other way.
C14_RejectedBeforeTraversal ==
  ~DimsMatch =>
    /\ pc \in {"scan", "done"}
    /\ pc = "done" => "invalid_input" \in report
    /\ low_edges = <<>> /\ high_edges = <<>>

\* ----------------------------------------------------------------- C15
\* the cell CombineGradients is about to process reads flat_height (line 140)
CombineReads(c) ==
  /\ pc = "combine"
  /\ low_edges # <<>>
  /\ c = Head(low_edges)
  /\ towards[c] > 0
  /\ away[c] > 0

\* regions the away pass never entered (no high edge)
NoHighEdgeRegions ==
  {g \in 0..(group_number - 1) : \A c \in Cells : labels[c] = g => away[c] = 0}

C15_ReadValue ==
  \A c \in Cells :
    CombineReads(c) =>
      /\ labels[c] \in DOMAIN flat_height
      /\ labels[c] \notin NoHighEdgeRegions
      /\ flat_height[labels[c]] = RegionAway(labels[c])

\* every away assignment writes its layer into the cell's region entry, and
\* once the away call has returned the vector is not written again
C15_LastWriter ==
  /\ \A c \in Cells :
       (pcA = "loop" /\ away'[c] # away[c]) => flat_height'[labels[c]] = away'[c]
  /\ (pcA = "ret" /\ pc \in {"build", "combine"}) => flat_height' = flat_height

\* C15: whenever CombineGradients reads flat_height[label(c)] (towards(c) > 0
\* and away(c) > 0) the entry is the largest away distance of the cells
\* carrying label(c), as written by the second BuildGradient call: it is never
\* a leftover of the towards pass nor the initial value, also when other
\* regions of the grid have no high edge.
C15_AwayHeightsOnly == [](C15_ReadValue) /\ [][C15_LastWriter]_vars

\* a read happens in a grid that also has a region without high edge, whose
\* entry still holds the towards pass's value
C15_Witness ==
  /\ \E c \in Cells : CombineReads(c)
  /\ \E g \in NoHighEdgeRegions : flat_height[g] > 0

\* ----------------------------------------------------------------- C16
\* the sequence q with its entries i and j exchanged
SwapSeq(q, i, j) ==
  [k \in 1..Len(q) |-> IF k = i THEN q[j] ELSE IF k = j THEN q[i] ELSE q[k]]

\* the edge sequences of the scan in another order (a scan visiting the cells
\* in another order), before the labelling loop has started
PermuteEdges ==
  /\ pc = "check"
  /\ li = 1
  /\ \/ /\ \E i, j \in 1..Len(low_edges) : i < j /\ low_edges' = SwapSeq(low_edges, i, j)
        /\ UNCHANGED high_edges
     \/ /\ \E i, j \in 1..Len(high_edges) : i < j /\ high_edges' = SwapSeq(high_edges, i, j)
        /\ UNCHANGED low_edges
  /\ UNCHANGED <<inputs, labels, flat_resolution_mask, group_number, li, towards, away,
                 flat_height, edgesT, loopsT, pcT, edgesA, loopsA, pcA, pc, report>>

NextPerm ==
  \/ Next
  \/ PermuteEdges

SpecPerm == Init /\ [][NextPerm]_vars

\* the position of a cell in the scan (x outer, y inner)
ScanIndex(c) == c[1] * Height + c[2]

\* the regions as sets of cells, whatever their numbers
RegionSets == {{c \in Cells : labels[c] = g} : g \in 0..(group_number - 1)}

RefRegionSets == {Component({c}) : c \in LowEdgeCells}

\* C16: whatever the order of the coordinates in low_edges and high_edges,
\* labelling, both BuildGradient passes and CombineGradients end with the same
\* mask, the one determined by the grids alone; the regions are the same sets
\* of cells, only their numbers may differ.
C16_OrderIndependent ==
  Finished =>
    /\ \A c \in Cells :
         flat_resolution_mask[c] =
           IF c \in Component(LowEdgeCells) THEN OwnMask(c) ELSE -1
    /\ RegionSets = RefRegionSets

\* a finished run whose low edges were labelled against the scan order and
\* whose high edges were not in scan order, with a mask above zero
C16_Witness ==
  /\ Finished
  /\ \E c, d \in LowEdgeCells : labels[c] = 0 /\ labels[d] = 1 /\ ScanIndex(d) < ScanIndex(c)
  /\ Len(high_edges) > 1
  /\ high_edges # SelectSeq(ScanOrder, LAMBDA c : c \in Range(high_edges))
  /\ \E c \in Cells : flat_resolution_mask[c] > 0

\* ----------------------------------------------------------------- C17
TowardsReturned == pc = "build" /\ pcT = "ret" /\ pcA = "idle"

RegionCells(g) == {c \in Cells : labels[c] = g}

\* the largest towards distance of a region
RegionTowards(g) == MaxOf({towards[c] : c \in RegionCells(g)})

Larger(a, b) == IF a > b THEN a ELSE b

\* flat_height after each run is the run's largest distance per visited region
C17_AfterRun ==
  /\ TowardsReturned =>
       \A g \in DOMAIN flat_height :
         flat_height[g] = RegionTowards(g)
  /\ BothReturned =>
       \A g \in DOMAIN flat_height :
         flat_height[g] = IF g \in NoHighEdgeRegions THEN RegionTowards(g) ELSE RegionAway(g)

\* an entry changes only in a step that assigns a distance to a cell of its region
C17_Frame ==
  (pc = "build" /\ pc' = "build") =>
    \A g \in DOMAIN flat_height :
      flat_height'[g] # flat_height[g] =>
        \E c \in RegionCells(g) : towards'[c] # towards[c] \/ away'[c] # away[c]

\* what an update "only when the layer number is larger" leaves after the
\* second run: the larger of the two runs' maxima
C17_SameAsIfLarger ==
  BothReturned =>
    \A g \in DOMAIN flat_height :
      g \notin NoHighEdgeRegions =>
        flat_height[g] = Larger(RegionTowards(g), RegionAway(g))

\* C17 (as claimed): after a BuildGradient run flat_height[r] is, for every
\* region with a cell visited in the run, the largest distance the run
\* assigned to a cell labelled r, which is also what updating only when the
\* layer number is larger gives; the other entries are unchanged.
C17_RunMaximumAsIfLarger ==
  [](C17_AfterRun /\ C17_SameAsIfLarger) /\ [][C17_Frame]_vars

\* C17 (amended): after a BuildGradient run flat_height[r] is, for every
\* region with a cell visited in the run, the largest distance the run
\* assigned to a cell labelled r; the other entries are unchanged.  (It is
\* the unconditional assignment that makes the second run's entries so.)
C17_RunMaximum == [](C17_AfterRun) /\ [][C17_Frame]_vars

\* after the second run: a region whose away maximum is below its towards
\* maximum, and a region the away run did not visit
C17_Witness ==
  /\ BothReturned
  /\ \E g \in DOMAIN flat_height :
       g \notin NoHighEdgeRegions /\ flat_height[g] < RegionTowards(g)
  /\ \E g \in NoHighEdgeRegions : flat_height[g] = RegionTowards(g)

\* ----------------------------------------------------------------- C18
\* the steps other than the labelling loop's
StepsButLabelLoop ==
  \/ find_flat_edges
  \/ NoLowEdges
  \/ FilterHighEdges
  \/ TowardsCall
  \/ TowardsIter
  \/ TowardsReturn
  \/ AwayCall
  \/ AwayIter
  \/ AwayReturn
  \/ CombineCall
  \/ CombineIter
  \/ CombineReturn

\* an iteration of the labelling loop, seen as the advance of its index
LabelAdvance ==
  /\ pc = "check"
  /\ Len(low_edges) # 0
  /\ li <= Len(low_edges)
  /\ li' = li + 1

\* the program is sequential and runs on: the step it is at is taken
SpecFair == Spec /\ WF_vars(StepsButLabelLoop) /\ WF_li(LabelAdvance)

Markers(q) == Len(SelectSeq(q, LAMBDA e : e = iteration_marker))

\* at the loop test of BuildGradient the queue holds exactly one marker
C18_OneMarker ==
  /\ pcT = "loop" => Markers(edgesT) = 1
  /\ pcA = "loop" => Markers(edgesA) = 1

\* BuildGradient returns exactly when the marker is the only queue entry
C18_StopsAtMarker ==
  /\ (pcT = "loop" /\ pcT' = "ret") => edgesT = <<iteration_marker>>
  /\ (pcA = "loop" /\ pcA' = "ret") => edgesA = <<iteration_marker>>
  /\ (pcT = "loop" /\ edgesT = <<iteration_marker>>) => pcT' = "ret"
  /\ (pcA = "loop" /\ edgesA = <<iteration_marker>>) => pcA' = "ret"

\* C18: every run of resolve_flats_barnes terminates (the labelling loop with
\* its label_this calls, both BuildGradient loops and the CombineGradients
\* loop come to an end); BuildGradient stops exactly when the layer marker is
\* the only queue entry, the queue holding exactly one marker at every loop
\* test, also when it was given no seed.
C18_Terminates ==
  /\ [](C18_OneMarker)
  /\ [][C18_StopsAtMarker]_vars
  /\ <>(pc = "done")

\* a run that ended after a towards pass of several layers and an away pass
\* started without seed
C18_Witness ==
  /\ pc = "done"
  /\ group_number > 0
  /\ loopsT > 2
  /\ high_edges = <<>>
  /\ loopsA = 1
  /\ edgesA = <<iteration_marker>>

\* ----------------------------------------------------------------- C19
\* a queue of BuildGradient: grid cells and markers only
CellsOrMarker(q) == \A i \in 1..Len(q) : q[i] \in Cells \/ q[i] = iteration_marker

\* the next iteration of either BuildGradient loop indexes within range
C19_GradientIndex ==
  /\ pc = "build" => DOMAIN flat_height = 0..(group_number - 1)
  /\ pcT = "loop" => CellsOrMarker(edgesT)
  /\ pcA = "loop" => CellsOrMarker(edgesA)
  /\ (pcT = "loop" /\ Len(edgesT) # 1) => HeightIndexOk(towards, edgesT)
  /\ (pcA = "loop" /\ Len(edgesA) # 1) => HeightIndexOk(away, edgesA)
  /\ \A c \in Cells : (towards[c] > 0 \/ away[c] > 0) => labels[c] \in 0..(group_number - 1)

\* CombineGradients is handed the scan's sequence and only ever holds grid cells
C19_CombineQueue ==
  /\ (pc = "build" \/ (pc = "combine" /\ towards = RefDist(LowEdgeCells))) =>
       low_edges = SelectSeq(ScanOrder, IsLow)
  /\ pc = "combine" =>
       \A i \in 1..Len(low_edges) :
         /\ low_edges[i] \in Cells
         /\ (towards[low_edges[i]] > 0 /\ away[low_edges[i]] > 0) =>
              labels[low_edges[i]] \in DOMAIN flat_height

\* C19: every cell dequeued and assigned in either BuildGradient call has a
\* label in 0..group_number-1, so flat_height is indexed within range; the
\* queue handed to CombineGradients is the sequence find_flat_edges produced,
\* and no marker and no out-of-grid coordinate is used as an index of
\* towards, away, labels or the mask.
C19_IndexSafety == C19_GradientIndex /\ C19_CombineQueue

\* CombineGradients at work on a queue grown by its own pushes, after both
\* passes assigned distances beyond their seeds
C19_Witness ==
  /\ pc = "combine"
  /\ Len(low_edges) > Len(SelectSeq(ScanOrder, IsLow))
  /\ \E c \in Cells : towards[c] > 1 /\ away[c] > 1
  /\ \E c \in Cells : labels[c] = -1

\* ----------------------------------------------------------------- C20
\* CombineGradients has returned
CombineReturned == pc = "done" /\ group_number > 0

C20_Frame == pc = "combine" => UNCHANGED <<away, labels, flat_height>>

\* C20: when CombineGradients returns, its queue is emptied except for an
\* iteration marker, towards holds -1 at every flat cell (flowdirs NO_FLOW),
\* and away, labels and flat_height are unchanged (doc comment, lines 108-115).
C20_DocumentedPostState ==
  /\ [](CombineReturned =>
          /\ low_edges = <<iteration_marker>>
          /\ \A c \in Cells : flowdirs[c] = NO_FLOW => towards[c] = -1)
  /\ [][C20_Frame]_vars

\* what the code leaves: an empty queue, towards -1 at the cells of the
\* labelled regions and 0 elsewhere, the other three untouched
C20_PartsThatHold ==
  /\ [](CombineReturned =>
          /\ low_edges = <<>>
          /\ \A c \in Cells : towards[c] = IF labels[c] # -1 THEN -1 ELSE 0)
  /\ [][C20_Frame]_vars
====
